---- MODULE Spec2Model ----
(***************************************************************************)
(* cyhy-config: locating, reading and validating a CyHy configuration.     *)
(*                                                                         *)
(* Specifications over the same variables:                                 *)
(*   Spec          one call of get_config (remote store, then the          *)
(*                 filesystem chain), one action per call it makes;        *)
(*   SpecValidate  calls of validate_config on a caller-owned tree;        *)
(*   SpecAll       either of the two.                                      *)
(*                                                                         *)
(* A parsed TOML document (a Python dict) is a record                      *)
(*   [keys, databases, modes]: keys is the set of root keys present,       *)
(*   databases maps a name to a table (a function from its keys to         *)
(*   strings), modes maps a name to [fields, database] where fields is the *)
(*   table of the plain keys and database is what is stored under the key  *)
(*   "database": nothing, a string, or a table.                            *)
(***************************************************************************)
EXTENDS Integers, Sequences, FiniteSets, TLC

\* Largest number of records (database tables plus mode tables) in a tree.
MaxEntries == 3

None == "None"
CYHY_CONFIG_PATH == "CYHY_CONFIG_PATH"
CYHY_CONFIG_SSM_PATH == "CYHY_CONFIG_SSM_PATH"
CyHyConfig == "CyHyConfig"

\* Names used as keys of the two mappings, and a name bound to nothing.
DbNames == {"d1", "d2"}
ModeNames == {"m1", "m2"}
MissingName == "missing"

\* Fields declared by the models; ExtraKey is a key no model declares.
DatabaseFields == {"auth_uri", "name"}
ModeFields == {"database", "description", "name"}
CyHyConfigFields == {"modes", "databases"}
ExtraKey == "extra_field"
ModePlainFields == ModeFields \ {"database"}

EmptyTable == [k \in {} |-> ""]

\* What a mode table holds under "database".
NoField == [kind |-> "absent", ref |-> "", rec |-> EmptyTable]
StrField(n) == [kind |-> "str", ref |-> n, rec |-> EmptyTable]
TableField(t) == [kind |-> "table", ref |-> "", rec |-> t]

\* Tables over a set of keys; every value of the table of entry n is n.
Tables(n, allKeys) == UNION {[ks -> {n}] : ks \in SUBSET allKeys}

DatabaseTables(d) == Tables(d, DatabaseFields \cup {ExtraKey})

ModeTables(m) ==
    {[fields |-> f, database |-> db] :
        f \in Tables(m, ModePlainFields \cup {ExtraKey}),
        db \in {NoField} \cup {StrField(n) : n \in DbNames \cup {MissingName}}}

DatabaseMaps ==
    UNION {{f \in [ds -> UNION {DatabaseTables(d) : d \in ds}] :
               \A d \in ds : f[d] \in DatabaseTables(d)} : ds \in SUBSET DbNames}

ModeMaps ==
    UNION {{f \in [ms -> UNION {ModeTables(m) : m \in ms}] :
               \A m \in ms : f[m] \in ModeTables(m)} : ms \in SUBSET ModeNames}

EmptyTree == [keys |-> {}, databases |-> EmptyTable, modes |-> EmptyTable]

\* A tree keeps a mapping only under a root key it has, and is bounded in size.
WellFormedTree(t) ==
    /\ ("databases" \notin t.keys => t.databases = EmptyTable)
    /\ ("modes" \notin t.keys => t.modes = EmptyTable)
    /\ Cardinality(DOMAIN t.databases) + Cardinality(DOMAIN t.modes) <= MaxEntries

(***************************************************************************)
(* Values a call returns or raises.                                        *)
(***************************************************************************)
NoObj == [modes |-> EmptyTable, databases |-> EmptyTable]

\* A Python value of type T | dict | None.
NoneValue == [type |-> "None", tree |-> EmptyTree, obj |-> NoObj]
DictValue(t) == [type |-> "dict", tree |-> t, obj |-> NoObj]
ModelValue(o) == [type |-> "model", tree |-> EmptyTree, obj |-> o]

Returned(v) ==
    [kind |-> "returned", error |-> None, code |-> "", errors |-> {}, value |-> v]
Raised(e, c, errs) ==
    [kind |-> "raised", error |-> e, code |-> c, errors |-> errs, value |-> NoneValue]
NoOutcome ==
    [kind |-> "none", error |-> None, code |-> "", errors |-> {}, value |-> NoneValue]

\* Python truthiness of a str | None and of a T | dict | None.
TruthyStr(s) == s # None /\ s # ""
Truthy(v) ==
    CASE v.type = "None" -> FALSE
      [] v.type = "dict" -> v.tree.keys # {}
      [] OTHER -> TRUE

(***************************************************************************)
(* models/config_model.py                                                  *)
(***************************************************************************)
\* dict.get(key, {}) on the root of a tree.
GetOrEmpty(values, key) ==
    IF key \notin values.keys THEN EmptyTable
    ELSE IF key = "databases" THEN values.databases ELSE values.modes

\* Iteration order of a dict of modes: the order of the document. The input
\* trees are closed under renaming of modes, so the order by name loses none.
ModeOrderPool == <<"m1", "m2">>
InOrder(modes) == SelectSeq(ModeOrderPool, LAMBDA m : m \in DOMAIN modes)

\* ResolveLoop with database_dict.get(name, <a record made up for the name>).
RECURSIVE ResolveLoop_default(_, _, _)
ResolveLoop_default(modes, database_dict, order) ==
    IF order = <<>> THEN [modes |-> modes, error |-> None]
    ELSE LET m == Head(order)
             field == modes[m].database
             found == IF field.ref \in DOMAIN database_dict THEN database_dict[field.ref]
                      ELSE [k \in DatabaseFields |-> field.ref]
         IN  CASE field.kind = "absent" -> [modes |-> modes, error |-> "KeyError"]
               [] field.kind = "table" -> [modes |-> modes, error |-> "TypeError"]
               [] OTHER ->
                      ResolveLoop_default(
                          [modes EXCEPT ![m].database = TableField(found)],
                          database_dict, Tail(order))

\* The loop of resolve_actions: mode["database"] = database_dict[mode["database"]],
\* assigned in place, mode after mode; the first failing lookup ends the loop
\* and leaves the earlier assignments behind.
RECURSIVE ResolveLoop(_, _, _)
ResolveLoop(modes, database_dict, order) ==
    IF order = <<>> THEN [modes |-> modes, error |-> None]
    ELSE LET m == Head(order)
             field == modes[m].database
         IN  CASE field.kind = "absent" -> [modes |-> modes, error |-> "KeyError"]
               [] field.kind = "table" -> [modes |-> modes, error |-> "TypeError"]
               [] field.ref \notin DOMAIN database_dict ->
                      [modes |-> modes, error |-> "KeyError"]
               [] OTHER ->
                      ResolveLoop(
                          [modes EXCEPT ![m].database = TableField(database_dict[field.ref])],
                          database_dict, Tail(order))

resolve_actions(values) ==
    LET modes == GetOrEmpty(values, "modes")
        r == ResolveLoop(modes, GetOrEmpty(values, "databases"), InOrder(modes))
    IN  [values |-> [values EXCEPT !.modes = r.modes], error |-> r.error]

\* TableErrors with extra="ignore".
TableErrors_ignore(loc, t, declared) ==
    {[loc |-> Append(loc, k), type |-> "missing"] : k \in declared \ DOMAIN t}

\* Errors of one table against the fields a model declares (extra="forbid").
TableErrors(loc, t, declared) ==
    {[loc |-> Append(loc, k), type |-> "missing"] : k \in declared \ DOMAIN t}
    \cup {[loc |-> Append(loc, k), type |-> "extra_forbidden"] : k \in DOMAIN t \ declared}

Database(loc, t) == TableErrors(loc, t, DatabaseFields)

Mode(loc, mode) ==
    TableErrors(loc, mode.fields, ModePlainFields)
    \cup CASE mode.database.kind = "absent" ->
                  {[loc |-> Append(loc, "database"), type |-> "missing"]}
           [] mode.database.kind = "str" ->
                  {[loc |-> Append(loc, "database"), type |-> "model_type"]}
           [] OTHER -> Database(Append(loc, "database"), mode.database.rec)

\* Field validation of the root model: every error of every field is collected.
CyHyConfigErrors(values) ==
    {[loc |-> <<k>>, type |-> "missing"] : k \in CyHyConfigFields \ values.keys}
    \cup {[loc |-> <<k>>, type |-> "extra_forbidden"] : k \in values.keys \ CyHyConfigFields}
    \cup UNION {Database(<<"databases", d>>, values.databases[d]) :
                    d \in DOMAIN values.databases}
    \cup UNION {Mode(<<"modes", m>>, values.modes[m]) : m \in DOMAIN values.modes}

\* The object built from a tree without errors.
CyHyConfigObject(values) ==
    [modes |-> [m \in DOMAIN values.modes |->
                   [database |-> values.modes[m].database.rec,
                    description |-> values.modes[m].fields["description"],
                    name |-> values.modes[m].fields["name"]]],
     databases |-> values.databases]

(***************************************************************************)
(* cyhy_config.py: validate_config                                         *)
(***************************************************************************)
\* ModelInit with the validator run in mode="after": fields are validated as written.
ModelInit_after(config_dict) ==
    LET errs == CyHyConfigErrors(config_dict)
    IN  IF errs # {} THEN [out |-> Raised("ValidationError", "", errs), tree |-> config_dict]
        ELSE [out |-> Returned(ModelValue(CyHyConfigObject(config_dict))), tree |-> config_dict]

\* model(**config_dict): the "before" validator, then field validation. The
\* keyword arguments are a new root dict, the mode tables in it are the
\* caller's own, so `tree` is what the caller's dict holds afterwards.
ModelInit(config_dict) ==
    LET r == resolve_actions(config_dict)
        errs == CyHyConfigErrors(r.values)
    IN  IF r.error # None THEN [out |-> Raised(r.error, "", {}), tree |-> r.values]
        ELSE IF errs # {} THEN [out |-> Raised("ValidationError", "", errs), tree |-> r.values]
        ELSE [out |-> Returned(ModelValue(CyHyConfigObject(r.values))), tree |-> r.values]

\* validate_config resolving the references of the tree even without a model.
validate_config_resolving(config_dict, mdl) ==
    IF mdl = None
    THEN [out |-> Returned(DictValue(resolve_actions(config_dict).values)),
          tree |-> resolve_actions(config_dict).values]
    ELSE ModelInit(config_dict)

validate_config(config_dict, mdl) ==
    IF mdl = None THEN [out |-> Returned(DictValue(config_dict)), tree |-> config_dict]
    ELSE ModelInit(config_dict)

VARIABLES
    file_path,         \* get_config's argument
    ssm_path,          \* get_config's argument
    model,             \* get_config's / validate_config's argument
    environ,           \* os.environ
    fs,                \* what each candidate path is on disk
    pc,                \* position in get_config
    trace,             \* calls made to the remote store and the filesystem
    config,            \* get_config's local: what read_config_ssm returned
    config_file_path,  \* get_config's local: what find_config_file returned
    outcome,           \* what the call returned or raised
    config_dict,       \* the parsed tree, as the caller holds it
    before             \* config_dict as it was when validate_config was entered

vars == <<file_path, ssm_path, model, environ, fs, pc, trace, config,
          config_file_path, outcome, config_dict, before>>

Candidates == <<"file_path", CYHY_CONFIG_PATH, "cyhy.toml", "~/.cyhy/cyhy.toml", "/etc/cyhy.toml">>
CandidateSet == {Candidates[i] : i \in DOMAIN Candidates}

(***************************************************************************)
(* TOML documents and tomllib                                              *)
(***************************************************************************)
\* The texts a file or a remote parameter may hold.
NotToml == "This is not valid TOML"
EmptyDoc == ""
KeyValueDoc == "extra_field = 'value'"
ExampleDoc == "[databases.d1] [modes.m1] database = 'd1'"
DanglingDoc == "[databases.d1] [modes.m1] database = 'missing'"
Texts == {NotToml, EmptyDoc, KeyValueDoc, ExampleDoc, DanglingDoc}

ExampleTree(ref) ==
    [keys |-> {"databases", "modes"},
     databases |-> [d \in {"d1"} |-> [k \in DatabaseFields |-> d]],
     modes |-> [m \in {"m1"} |->
                  [fields |-> [k \in ModePlainFields |-> m], database |-> StrField(ref)]]]

\* tomllib.loads / tomllib.load: a tree, or TOMLDecodeError.
WellFormedToml(text) == text # NotToml
Parse(text) ==
    CASE text = EmptyDoc -> EmptyTree
      [] text = KeyValueDoc -> [EmptyTree EXCEPT !.keys = {ExtraKey}]
      [] text = ExampleDoc -> ExampleTree("d1")
      [] text = DanglingDoc -> ExampleTree(MissingName)

(***************************************************************************)
(* The remote store and the filesystem                                     *)
(***************************************************************************)
ParameterNotFound == "ParameterNotFound"
OtherCodes == {"AccessDeniedException", "ThrottlingException"}

ErrorResponse(c) == [kind |-> "error", body |-> c]
ValueResponse(t) == [kind |-> "value", body |-> t]
StoreResponses ==
    {ErrorResponse(c) : c \in {ParameterNotFound} \cup OtherCodes}
    \cup {ValueResponse(t) : t \in Texts}

PathArgs == {None, "", "/mock/path"}
EnvPaths == {None, "", "/mock/env/path"}
SsmArgs == {None, "", "/mock/ssm/path"}
EnvSsmPaths == {None, "", "/mock/ssm/env_path"}
SsmKeys == (SsmArgs \cup EnvSsmPaths) \ {None, ""}

Kinds == {"absent", "file", "dir"}
exists(fsys, c) == fsys[c] # "absent"
isfile(fsys, c) == fsys[c] = "file"

Bool(b) == IF b THEN "True" ELSE "False"
Event(op, arg, res) == [op |-> op, arg |-> arg, res |-> res]
ExistsEvent(fsys, c) == Event("exists", c, Bool(exists(fsys, c)))
FsOps == {"exists", "isfile", "open"}

(***************************************************************************)
(* cyhy_config.py: find_config_file, read_config_ssm, read_config_file     *)
(***************************************************************************)
Found(c, events) == [raised |-> FALSE, path |-> c, events |-> events]
NotFound(events) == [raised |-> TRUE, path |-> None, events |-> events]

\* find_config_file failing at once on a given path that does not exist.
find_config_file_fatal(fp, env, fsys) ==
    LET e1 == IF TruthyStr(fp) THEN <<ExistsEvent(fsys, "file_path")>> ELSE <<>>
        env_file_value == env[CYHY_CONFIG_PATH]
        e2 == e1 \o (IF TruthyStr(env_file_value)
                     THEN <<ExistsEvent(fsys, CYHY_CONFIG_PATH)>> ELSE <<>>)
        e3 == Append(e2, ExistsEvent(fsys, "cyhy.toml"))
        e4 == Append(e3, ExistsEvent(fsys, "~/.cyhy/cyhy.toml"))
        e5 == Append(e4, ExistsEvent(fsys, "/etc/cyhy.toml"))
    IN  IF TruthyStr(fp)
        THEN IF exists(fsys, "file_path") THEN Found("file_path", e1) ELSE NotFound(e1)
        ELSE IF TruthyStr(env_file_value) /\ exists(fsys, CYHY_CONFIG_PATH)
             THEN Found(CYHY_CONFIG_PATH, e2)
        ELSE IF exists(fsys, "cyhy.toml") THEN Found("cyhy.toml", e3)
        ELSE IF exists(fsys, "~/.cyhy/cyhy.toml") THEN Found("~/.cyhy/cyhy.toml", e4)
        ELSE IF exists(fsys, "/etc/cyhy.toml") THEN Found("/etc/cyhy.toml", e5)
        ELSE NotFound(e5)

find_config_file(fp, env, fsys) ==
    LET e1 == IF TruthyStr(fp) THEN <<ExistsEvent(fsys, "file_path")>> ELSE <<>>
        env_file_value == env[CYHY_CONFIG_PATH]
        e2 == e1 \o (IF TruthyStr(env_file_value)
                     THEN <<ExistsEvent(fsys, CYHY_CONFIG_PATH)>> ELSE <<>>)
        e3 == Append(e2, ExistsEvent(fsys, "cyhy.toml"))
        e4 == Append(e3, ExistsEvent(fsys, "~/.cyhy/cyhy.toml"))
        e5 == Append(e4, ExistsEvent(fsys, "/etc/cyhy.toml"))
    IN  IF TruthyStr(fp) /\ exists(fsys, "file_path") THEN Found("file_path", e1)
        ELSE IF TruthyStr(env_file_value) /\ exists(fsys, CYHY_CONFIG_PATH)
             THEN Found(CYHY_CONFIG_PATH, e2)
        ELSE IF exists(fsys, "cyhy.toml") THEN Found("cyhy.toml", e3)
        ELSE IF exists(fsys, "~/.cyhy/cyhy.toml") THEN Found("~/.cyhy/cyhy.toml", e4)
        ELSE IF exists(fsys, "/etc/cyhy.toml") THEN Found("/etc/cyhy.toml", e5)
        ELSE NotFound(e5)

\* What a read leaves behind: the outcome, the calls made, the tree as parsed
\* and the tree as validation left it.
ReadResult(out, events, parsed, tree) ==
    [out |-> out, events |-> events, parsed |-> parsed, tree |-> tree]

\* LoadText taking text that does not parse for a miss.
LoadText_miss(text, mdl, events) ==
    IF ~WellFormedToml(text)
    THEN ReadResult(Returned(NoneValue), events, EmptyTree, EmptyTree)
    ELSE LET v == validate_config(Parse(text), mdl)
         IN  ReadResult(v.out, events, Parse(text), v.tree)

\* Text to tree to validated configuration, shared by both readers.
LoadText(text, mdl, events) ==
    IF ~WellFormedToml(text)
    THEN ReadResult(Raised("TOMLDecodeError", "", {}), events, EmptyTree, EmptyTree)
    ELSE LET v == validate_config(Parse(text), mdl)
         IN  ReadResult(v.out, events, Parse(text), v.tree)

\* SsmLoop raising every ClientError, ParameterNotFound included.
RECURSIVE SsmLoop_raise(_, _, _)
SsmLoop_raise(ssm_paths, mdl, store) ==
    IF ssm_paths = <<>> THEN ReadResult(Returned(NoneValue), <<>>, EmptyTree, EmptyTree)
    ELSE LET path == Head(ssm_paths)
             response == store[path]
             call == <<Event("get_parameter", path, response.body)>>
         IN  IF ~TruthyStr(path) THEN SsmLoop_raise(Tail(ssm_paths), mdl, store)
             ELSE IF response.kind = "error"
                  THEN ReadResult(Raised("ClientError", response.body, {}), call,
                                  EmptyTree, EmptyTree)
             ELSE LoadText(response.body, mdl, call)

\* SsmLoop taking every ClientError for a miss.
RECURSIVE SsmLoop_swallow(_, _, _)
SsmLoop_swallow(ssm_paths, mdl, store) ==
    IF ssm_paths = <<>> THEN ReadResult(Returned(NoneValue), <<>>, EmptyTree, EmptyTree)
    ELSE LET path == Head(ssm_paths)
             response == store[path]
             call == <<Event("get_parameter", path, response.body)>>
         IN  IF ~TruthyStr(path) THEN SsmLoop_swallow(Tail(ssm_paths), mdl, store)
             ELSE IF response.kind = "error"
                  THEN ReadResult(Returned(NoneValue), call, EmptyTree, EmptyTree)
             ELSE LoadText(response.body, mdl, call)

\* SsmLoop going on to the next key after ParameterNotFound.
RECURSIVE SsmLoop_continue(_, _, _)
SsmLoop_continue(ssm_paths, mdl, store) ==
    IF ssm_paths = <<>> THEN ReadResult(Returned(NoneValue), <<>>, EmptyTree, EmptyTree)
    ELSE LET path == Head(ssm_paths)
             response == store[path]
             call == <<Event("get_parameter", path, response.body)>>
             rest == SsmLoop_continue(Tail(ssm_paths), mdl, store)
         IN  IF ~TruthyStr(path) THEN rest
             ELSE IF response.kind = "error"
                  THEN IF response.body = ParameterNotFound
                       THEN [rest EXCEPT !.events = call \o rest.events]
                       ELSE ReadResult(Raised("ClientError", response.body, {}), call,
                                       EmptyTree, EmptyTree)
             ELSE LoadText(response.body, mdl, call)

\* The loop over (ssm_path, environment variable); store answers a lookup.
RECURSIVE SsmLoop(_, _, _)
SsmLoop(ssm_paths, mdl, store) ==
    IF ssm_paths = <<>> THEN ReadResult(Returned(NoneValue), <<>>, EmptyTree, EmptyTree)
    ELSE LET path == Head(ssm_paths)
             response == store[path]
             call == <<Event("get_parameter", path, response.body)>>
         IN  IF ~TruthyStr(path) THEN SsmLoop(Tail(ssm_paths), mdl, store)
             ELSE IF response.kind = "error"
                  THEN IF response.body = ParameterNotFound
                       THEN ReadResult(Returned(NoneValue), call, EmptyTree, EmptyTree)
                       ELSE ReadResult(Raised("ClientError", response.body, {}), call,
                                       EmptyTree, EmptyTree)
             ELSE LoadText(response.body, mdl, call)

read_config_ssm(path, mdl, env, store) ==
    SsmLoop(<<path, env[CYHY_CONFIG_SSM_PATH]>>, mdl, store)

read_config_file(config_file, mdl, fsys, text) ==
    LET check == <<Event("isfile", config_file, Bool(isfile(fsys, config_file)))>>
    IN  IF ~isfile(fsys, config_file)
        THEN ReadResult(Raised("FileNotFoundError", "", {}), check, EmptyTree, EmptyTree)
        ELSE LoadText(text, mdl, Append(check, Event("open", config_file, text)))

(***************************************************************************)
(* Spec: one call of get_config                                            *)
(***************************************************************************)
Init ==
    /\ file_path \in PathArgs
    /\ ssm_path \in SsmArgs
    /\ model \in {None, CyHyConfig}
    /\ \E p \in EnvPaths, k \in EnvSsmPaths :
          environ = [v \in {CYHY_CONFIG_PATH, CYHY_CONFIG_SSM_PATH} |->
                        IF v = CYHY_CONFIG_PATH THEN p ELSE k]
    /\ fs \in [CandidateSet -> Kinds]
    \* a candidate nobody names is no path at all
    /\ (~TruthyStr(file_path) => fs["file_path"] = "absent")
    /\ (~TruthyStr(environ[CYHY_CONFIG_PATH]) => fs[CYHY_CONFIG_PATH] = "absent")
    /\ pc = "L47"
    /\ trace = <<>>
    /\ config = NoneValue
    /\ config_file_path = None
    /\ outcome = NoOutcome
    /\ config_dict = EmptyTree
    /\ before = EmptyTree

\* line 47: config = read_config_ssm(ssm_path, model)
ReadConfigSsm ==
    /\ pc = "L47"
    /\ \E store \in [SsmKeys -> StoreResponses] :
          LET r == read_config_ssm(ssm_path, model, environ, store)
          IN  /\ trace' = trace \o r.events
              /\ before' = r.parsed
              /\ config_dict' = r.tree
              /\ IF r.out.kind = "raised"
                 THEN /\ outcome' = r.out
                      /\ pc' = "done"
                      /\ UNCHANGED config
                 ELSE /\ config' = r.out.value
                      /\ pc' = "L48"
                      /\ UNCHANGED outcome
    /\ UNCHANGED <<file_path, ssm_path, model, environ, fs, config_file_path>>

\* lines 48-49: if config: return config
ReturnSsmConfig ==
    /\ pc = "L48"
    /\ Truthy(config)
    /\ outcome' = Returned(config)
    /\ pc' = "done"
    /\ UNCHANGED <<file_path, ssm_path, model, environ, fs, trace, config,
                   config_file_path, config_dict, before>>

\* line 52: config_file_path = find_config_file(file_path)
FindConfigFile ==
    /\ pc = "L48"
    /\ ~Truthy(config)
    /\ LET r == find_config_file(file_path, environ, fs)
       IN  /\ trace' = trace \o r.events
           /\ IF r.raised
              THEN /\ outcome' = Raised("FileNotFoundError", "", {})
                   /\ pc' = "done"
                   /\ UNCHANGED config_file_path
              ELSE /\ config_file_path' = r.path
                   /\ pc' = "L54"
                   /\ UNCHANGED outcome
    /\ UNCHANGED <<file_path, ssm_path, model, environ, fs, config, config_dict, before>>

\* line 54: return read_config_file(config_file_path, model)
ReadConfigFile ==
    /\ pc = "L54"
    /\ \E text \in Texts :
          LET r == read_config_file(config_file_path, model, fs, text)
          IN  /\ trace' = trace \o r.events
              /\ before' = r.parsed
              /\ config_dict' = r.tree
              /\ outcome' = r.out
    /\ pc' = "done"
    /\ UNCHANGED <<file_path, ssm_path, model, environ, fs, config, config_file_path>>

Next == ReadConfigSsm \/ ReturnSsmConfig \/ FindConfigFile \/ ReadConfigFile

Spec == Init /\ [][Next]_vars

(***************************************************************************)
(* SpecValidate: a caller validates its tree, any number of times.         *)
(***************************************************************************)
InitValidate ==
    /\ \E ks \in SUBSET (CyHyConfigFields \cup {ExtraKey}), dbs \in DatabaseMaps, mds \in ModeMaps :
          /\ WellFormedTree([keys |-> ks, databases |-> dbs, modes |-> mds])
          /\ config_dict = [keys |-> ks, databases |-> dbs, modes |-> mds]
    /\ model \in {None, CyHyConfig}
    /\ before = config_dict
    /\ outcome = NoOutcome
    /\ pc = "validate_config"
    /\ file_path = None /\ ssm_path = None
    /\ environ = [v \in {CYHY_CONFIG_PATH, CYHY_CONFIG_SSM_PATH} |-> None]
    /\ fs = [c \in CandidateSet |-> "absent"]
    /\ trace = <<>>
    /\ config = NoneValue
    /\ config_file_path = None

ValidateConfig ==
    /\ pc = "validate_config"
    /\ LET r == validate_config(config_dict, model)
       IN  /\ outcome' = r.out
           /\ config_dict' = r.tree
    /\ before' = config_dict
    /\ UNCHANGED <<file_path, ssm_path, model, environ, fs, pc, trace, config,
                   config_file_path>>

NextValidate == ValidateConfig

SpecValidate == InitValidate /\ [][NextValidate]_vars

(***************************************************************************)
(* SpecAll: either entry point.                                            *)
(***************************************************************************)
InitAll == Init \/ InitValidate

NextAll == Next \/ NextValidate

SpecAll == InitAll /\ [][NextAll]_vars

(***************************************************************************)
(* Properties                                                              *)
(***************************************************************************)
HasOp(ops) == \E i \in DOMAIN trace : trace[i].op \in ops
Answered(bodies) ==
    \E i \in DOMAIN trace : trace[i].op = "get_parameter" /\ trace[i].res \in bodies
LastEvent == trace[Len(trace)]

\* The candidates of the documented search order that are named and exist.
Named(c) ==
    /\ (c = "file_path" => TruthyStr(file_path))
    /\ (c = CYHY_CONFIG_PATH => TruthyStr(environ[CYHY_CONFIG_PATH]))
Existing == {i \in DOMAIN Candidates : Named(Candidates[i]) /\ fs[Candidates[i]] # "absent"}
FirstExisting == Candidates[CHOOSE i \in Existing : \A j \in Existing : i <= j]

FindRan == HasOp({"exists"})
FindRaised ==
    /\ pc = "done" /\ config_file_path = None
    /\ outcome = Raised("FileNotFoundError", "", {})

\* C1: find_config_file returns the first existing candidate in the order
\* explicit path, CYHY_CONFIG_PATH, ./cyhy.toml, ~/.cyhy/cyhy.toml,
\* /etc/cyhy.toml, skipping a named path that is absent, and raises
\* FileNotFoundError, and nothing else, exactly when no candidate exists.
C1_FirstExistingCandidate ==
    FindRan =>
        IF Existing = {} THEN FindRaised
        ELSE config_file_path = FirstExisting /\ ~FindRaised

C1_Witness ==
    /\ TruthyStr(file_path) /\ fs["file_path"] = "absent"
    /\ TruthyStr(environ[CYHY_CONFIG_PATH]) /\ fs[CYHY_CONFIG_PATH] = "absent"
    /\ fs["cyhy.toml"] = "absent"
    /\ config_file_path = "~/.cyhy/cyhy.toml"

\* What the filesystem chain gives once it has run to its end.
FileChainOutcome ==
    IF Existing = {} THEN FindRaised
    ELSE /\ config_file_path = FirstExisting
         /\ IF isfile(fs, config_file_path)
            THEN /\ LastEvent.op = "open"
                 /\ outcome = LoadText(LastEvent.res, model, <<>>).out
            ELSE outcome = Raised("FileNotFoundError", "", {})

\* C2: when the store answers ParameterNotFound, read_config_ssm returns None
\* without raising, and get_config goes on to find_config_file and
\* read_config_file and ends with their result.
C2_NotFoundFallsBack ==
    Answered({ParameterNotFound}) =>
        /\ config = NoneValue
        /\ pc \in {"L48", "L54", "done"}
        /\ (pc # "L48" => FindRan)
        /\ (pc = "done" => FileChainOutcome)

C2_Witness ==
    /\ Answered({ParameterNotFound})
    /\ pc = "done"
    /\ outcome.kind = "returned"
    /\ outcome.value.type = "model"

\* C3: when the store answers with an error code other than
\* ParameterNotFound, get_config raises that error and ends: the lookup is the
\* last call made, no candidate is checked and no file is read.
C3_OtherErrorIsFatal ==
    Answered(OtherCodes) =>
        /\ pc = "done"
        /\ outcome = Raised("ClientError", LastEvent.res, {})
        /\ LastEvent.op = "get_parameter"
        /\ ~HasOp(FsOps)
        /\ config_file_path = None

C3_Witness ==
    /\ Answered(OtherCodes)
    /\ pc = "done"
    /\ \E c \in CandidateSet : fs[c] = "file"

\* The remote value looked up parses and, with a model, validates.
RemoteResolved ==
    /\ trace # <<>>
    /\ trace[1].op = "get_parameter"
    /\ trace[1].res \in Texts
    /\ WellFormedToml(trace[1].res)
    /\ validate_config(Parse(trace[1].res), model).out.kind = "returned"

\* C4: whenever the store returns a value that parses (and validates, when a
\* model is given), get_config returns the configuration built from it and
\* never consults the filesystem chain.
C4_RemoteValueWins ==
    RemoteResolved =>
        /\ ~HasOp(FsOps)
        /\ pc \in {"L48", "done"}
        /\ (pc = "done" =>
               outcome = validate_config(Parse(trace[1].res), model).out)

\* C10: text that is not well-formed TOML, from the store or from the file
\* found, makes the read raise TOMLDecodeError; nothing is returned, and
\* nothing follows: no fallback to the filesystem after a malformed remote value.
C10_MalformedIsFatal ==
    \A i \in DOMAIN trace :
        (trace[i].op \in {"get_parameter", "open"} /\ trace[i].res = NotToml) =>
            /\ i = Len(trace)
            /\ pc = "done"
            /\ outcome = Raised("TOMLDecodeError", "", {})
            /\ (trace[i].op = "get_parameter" => ~HasOp(FsOps))

C10_Witness ==
    /\ Answered({NotToml})
    /\ pc = "done"
    /\ \E c \in CandidateSet : fs[c] = "file"

(***************************************************************************)
(* Properties of validate_config                                           *)
(***************************************************************************)
Validated == pc = "validate_config" /\ outcome.kind # "none"
ValidatedAgainstModel == Validated /\ model = CyHyConfig

\* Every mode names, as a string, a key of the databases mapping.
AllResolve(t) ==
    \A m \in DOMAIN t.modes :
        /\ t.modes[m].database.kind = "str"
        /\ t.modes[m].database.ref \in DOMAIN t.databases

\* Some mode names a key that the databases mapping does not have.
Dangling(t) ==
    \E m \in DOMAIN t.modes :
        /\ t.modes[m].database.kind = "str"
        /\ t.modes[m].database.ref \notin DOMAIN t.databases

\* Where a tree has keys no model declares, and where required fields lack.
UndeclaredLocs(t) ==
    {<<k>> : k \in t.keys \ CyHyConfigFields}
    \cup {<<"databases", d, ExtraKey>> :
             d \in {x \in DOMAIN t.databases : ExtraKey \in DOMAIN t.databases[x]}}
    \cup {<<"modes", m, ExtraKey>> :
             m \in {x \in DOMAIN t.modes : ExtraKey \in DOMAIN t.modes[x].fields}}

MissingLocs(t) ==
    {<<k>> : k \in CyHyConfigFields \ t.keys}
    \cup UNION {{<<"databases", d, k>> : k \in DatabaseFields \ DOMAIN t.databases[d]} :
                   d \in DOMAIN t.databases}
    \cup UNION {{<<"modes", m, k>> : k \in ModePlainFields \ DOMAIN t.modes[m].fields} :
                   m \in DOMAIN t.modes}
    \cup {<<"modes", m, "database">> :
             m \in {x \in DOMAIN t.modes : t.modes[x].database.kind = "absent"}}

Conformant(t) == AllResolve(t) /\ UndeclaredLocs(t) = {} /\ MissingLocs(t) = {}

\* C5: a tree whose modes each name a key of databases and which is otherwise
\* conformant validates, and every returned mode's database field is the
\* record stored under the key it named.
C5_ReferencesResolved ==
    (ValidatedAgainstModel /\ Conformant(before)) =>
        /\ outcome.kind = "returned"
        /\ outcome.value.type = "model"
        /\ outcome.value.obj.databases = before.databases
        /\ DOMAIN outcome.value.obj.modes = DOMAIN before.modes
        /\ \A m \in DOMAIN before.modes :
              outcome.value.obj.modes[m].database
                  = before.databases[before.modes[m].database.ref]

C5_Witness ==
    /\ ValidatedAgainstModel /\ Conformant(before)
    /\ DOMAIN before.databases = {"d1", "d2"}
    /\ "m1" \in DOMAIN before.modes
    /\ before.modes["m1"].database.ref = "d2"
    /\ outcome.kind = "returned"

\* C6: a tree in which some mode names a key absent from databases (the
\* databases mapping itself may be absent) ends in a raised lookup error; no
\* configuration object is returned and no record is made up.
C6_DanglingReferenceRaises ==
    (ValidatedAgainstModel /\ Dangling(before)) =>
        /\ outcome.kind = "raised"
        /\ outcome.value = NoneValue
        /\ outcome.error \in {"KeyError", "TypeError"}
        /\ ((\A m \in DOMAIN before.modes : before.modes[m].database.kind # "table")
               => outcome.error = "KeyError")

C6_Witness ==
    /\ ValidatedAgainstModel /\ Dangling(before)
    /\ "databases" \notin before.keys
    /\ outcome.error = "KeyError"

C8_AllMissingFieldsListed ==
    (ValidatedAgainstModel /\ MissingLocs(before) # {} /\ ~Dangling(before)
        /\ \A m \in DOMAIN before.modes : before.modes[m].database.kind # "table") =>
        /\ outcome.kind = "raised"
        /\ outcome.error = "ValidationError"
        /\ \A loc \in MissingLocs(before) :
              [loc |-> loc, type |-> "missing"] \in outcome.errors

\* C9: without a model validate_config returns the tree it was given, and so
\* get_config, read_config_ssm and read_config_file return the document as
\* parsed.
C9_NoModelPassThrough ==
    model = None =>
        /\ (Validated => outcome = Returned(DictValue(before)) /\ config_dict = before)
        /\ (pc = "L48" /\ config # NoneValue =>
               config = DictValue(Parse(LastEvent.res)))
        /\ (pc = "done" /\ outcome.kind = "returned" =>
               outcome.value = DictValue(Parse(LastEvent.res)))

C9_Witness ==
    /\ model = None
    /\ Validated
    /\ AllResolve(before) /\ DOMAIN before.modes = {"m1", "m2"}
    /\ outcome.kind = "returned"

(***************************************************************************)
(* Properties of the call as a whole                                       *)
(***************************************************************************)
\* C11: validate_config with a model leaves the caller's tree as it was: after
\* the call, returned or raised, every mode's database field still holds the
\* name it held before.
C11_ValidationLeavesInputAlone ==
    ValidatedAgainstModel => config_dict = before

Lookups == {i \in DOMAIN trace : trace[i].op = "get_parameter"}
SetKeys == {k \in {ssm_path, environ[CYHY_CONFIG_SSM_PATH]} : TruthyStr(k)}

\* C12: one get_config / read_config_ssm makes at most one call to the remote
\* store, whatever keys are set and whatever the store answers, and none when
\* neither ssm_path nor CYHY_CONFIG_SSM_PATH is set.
C12_AtMostOneLookup ==
    /\ Cardinality(Lookups) <= 1
    /\ (SetKeys = {} => Lookups = {})
    /\ \A i \in Lookups : trace[i].arg \in SetKeys

C12_Witness ==
    /\ TruthyStr(ssm_path) /\ TruthyStr(environ[CYHY_CONFIG_SSM_PATH])
    /\ Answered({ParameterNotFound})
    /\ pc = "done"
    /\ Cardinality(Lookups) = 1

\* C13: with both keys set, ParameterNotFound for ssm_path is followed by a
\* lookup of the CYHY_CONFIG_SSM_PATH key, and the filesystem chain is entered
\* only after every key that is set has been reported not found.
C13_NotFoundTriesNextKey ==
    (/\ TruthyStr(ssm_path) /\ TruthyStr(environ[CYHY_CONFIG_SSM_PATH])
     /\ pc # "L47"
     /\ trace[1].arg = ssm_path /\ trace[1].res = ParameterNotFound) =>
        /\ Len(trace) >= 2
        /\ trace[2].op = "get_parameter"
        /\ trace[2].arg = environ[CYHY_CONFIG_SSM_PATH]
        /\ (HasOp(FsOps) => trace[2].res = ParameterNotFound)

\* C14: a path find_config_file returns passes read_config_file's own check,
\* and get_config raises FileNotFoundError only when no candidate exists.
C14_LocatorAndReaderAgree ==
    /\ (config_file_path # None => isfile(fs, config_file_path))
    /\ (pc = "done" /\ outcome.error = "FileNotFoundError" => Existing = {})

====
